---- MODULE Spec2Model ----
(***************************************************************************)
(* Model of the retrieval-generation-validation loop of the RAG email      *)
(* assistant: RAGWorkflow (app/graph/workflow.py), RAGAgent                *)
(* (app/agents/rag_agent.py) and GeminiAgent (app/agents/gemini_agent.py). *)
(*                                                                         *)
(* Python values are represented as follows.                               *)
(*   str (model text, queries, contents) : sequence of 1-character strings *)
(*   str (error messages, type names)    : TLA+ string, "" is the empty str *)
(*   None                                : the constant None               *)
(*   dict                                : function whose DOMAIN is the    *)
(*                                         set of keys present             *)
(*   float score                         : integer number of hundredths    *)
(***************************************************************************)
EXTENDS Integers, Sequences, FiniteSets, TLC

\* ------------------------------------------------------------------ bounds
\* Number of documents the vector index returns for one query at most
\* (the code asks for MAX_DOCUMENTS = 5; the model explores up to MaxDocs).
MaxDocs == 2

\* ------------------------------------------------------- program constants
\* RAGWorkflow._validate_response: quality_score >= 0.7
VALIDATION_THRESHOLD == 70
\* RAGWorkflow._should_regenerate: attempt < 3
MAX_ATTEMPTS == 3
\* Settings.SIMILARITY_THRESHOLD = 0.7
SIMILARITY_THRESHOLD == 70
\* ------------------------------------------------------------ Python values
None == <<"None">>

\* None in a slot that otherwise holds a float (an integer no score equals)
NoneScore == 0 - 1000000

EmptyDict == [k \in {} |-> k]

\* d.get(k, default)
Get(d, k, default) == IF k \in DOMAIN d THEN d[k] ELSE default

\* {**d, **upd}: keys of upd override keys of d
Merge(d, upd) == upd @@ d

\* truthiness of an error message (str): non-empty
TruthyMsg(m) == m # ""

\* truthiness of a text value that may be None: neither None nor ""
TruthyText(t) == t # None /\ t # <<>>

\* ------------------------------------------------------------- str.strip()
Whitespace == {" ", "\n", "\t"}

RECURSIVE LStrip(_)
LStrip(s) ==
    IF s = <<>> THEN <<>>
    ELSE IF Head(s) \in Whitespace THEN LStrip(Tail(s)) ELSE s

RECURSIVE RStrip(_)
RStrip(s) ==
    IF s = <<>> THEN <<>>
    ELSE IF s[Len(s)] \in Whitespace THEN RStrip(SubSeq(s, 1, Len(s) - 1)) ELSE s

Strip(s) == RStrip(LStrip(s))

\* ------------------------------------------------------------------ float()
Digits == {"0", "1", "2", "3", "4", "5", "6", "7", "8", "9"}

DigitVal(c) ==
    CASE c = "0" -> 0 [] c = "1" -> 1 [] c = "2" -> 2 [] c = "3" -> 3
      [] c = "4" -> 4 [] c = "5" -> 5 [] c = "6" -> 6 [] c = "7" -> 7
      [] c = "8" -> 8 [] c = "9" -> 9

AllDigits(s) == \A i \in 1..Len(s) : s[i] \in Digits

RECURSIVE IntVal(_)
IntVal(s) == IF s = <<>> THEN 0 ELSE 10 * IntVal(SubSeq(s, 1, Len(s) - 1)) + DigitVal(s[Len(s)])

\* value of the fractional digits in hundredths (digits past the second are
\* dropped; the texts of the model have at most two)
FracVal(s) ==
    (IF Len(s) >= 1 THEN 10 * DigitVal(s[1]) ELSE 0)
    + (IF Len(s) >= 2 THEN DigitVal(s[2]) ELSE 0)

DotPos(s) == IF \E i \in 1..Len(s) : s[i] = "."
             THEN CHOOSE i \in 1..Len(s) : s[i] = "." /\ \A j \in 1..(i - 1) : s[j] # "."
             ELSE 0

\* unsigned decimal literal: digits, digits.digits, digits. or .digits
ParseUnsigned(s) ==
    LET p == DotPos(s)
        ip == IF p = 0 THEN s ELSE SubSeq(s, 1, p - 1)
        fp == IF p = 0 THEN <<>> ELSE SubSeq(s, p + 1, Len(s))
    IN IF AllDigits(ip) /\ AllDigits(fp) /\ Len(ip) + Len(fp) >= 1
       THEN [ok |-> TRUE, val |-> 100 * IntVal(ip) + FracVal(fp)]
       ELSE [ok |-> FALSE, val |-> 0]

\* float('nan'): a float that no comparison holds of (an integer no score
\* equals, below every threshold)
NaN == 0 - 2000000

NaNLiterals == {<<"n", "a", "n">>, <<"N", "a", "N">>}

\* float(text): surrounding whitespace is ignored, an optional sign is
\* accepted, "nan" gives NaN, anything else that is no decimal literal
\* raises ValueError (ok = FALSE)
ParseFloat(text) ==
    LET s == Strip(text)
        signed == s # <<>> /\ Head(s) \in {"+", "-"}
        body == IF signed THEN Tail(s) ELSE s
        r == ParseUnsigned(body)
    IN IF body \in NaNLiterals THEN [ok |-> TRUE, val |-> NaN]
       ELSE IF signed /\ Head(s) = "-" THEN [ok |-> r.ok, val |-> 0 - r.val]
       ELSE r

\* max(a, b) and min(a, b) of Python: the first argument unless the second
\* compares greater (smaller); every comparison with NaN is false
PyMax(a, b) == IF a # NaN /\ b # NaN /\ b > a THEN b ELSE a
PyMin(a, b) == IF a # NaN /\ b # NaN /\ b < a THEN b ELSE a

\* ----------------------------------------------------- external behaviours
\* What the generative model does on one generate_content_async call: it
\* returns a response whose text is `text`, or the call raises.
Text(t) == [kind |-> "text", text |-> t]
Raise(ty, msg) == [kind |-> "raise", type |-> ty, msg |-> msg]

\* replies to an answer prompt
AnswerOutcomes ==
    { Text(<<"o", "k">>), Text(<<" ", "o", "k", "\n">>), Text(<<>>), Text(<<" ">>),
      Raise("ResourceExhausted", "quota exceeded"), Raise("TimeoutError", "") }

\* replies to a "rate the quality" prompt
RatingOutcomes ==
    { Text(<<"0", ".", "3">>), Text(<<"0", ".", "7">>), Text(<<"0", ".", "6", "9">>),
      Text(<<" ", "0", ".", "8", "\n">>), Text(<<"g", "o", "o", "d">>),
      Raise("ResourceExhausted", "quota exceeded") }

\* replies to a "how relevant is this document" prompt
RelevanceOutcomes ==
    { Text(<<"0", ".", "9">>), Text(<<"0", ".", "7">>), Text(<<"0", ".", "3">>),
      Text(<<"1", ".", "5">>), Text(<<"-", "1">>), Text(<<"n", "/", "a">>),
      Text(<<"n", "a", "n">>), Raise("ResourceExhausted", "quota exceeded") }

\* documents the vector index holds, as similarity_search formats them
Corpus ==
    { [content |-> <<"a">>, metadata |-> [source |-> <<"s">>], distance |-> 10],
      [content |-> <<"b">>, metadata |-> EmptyDict, distance |-> 20] }

RECURSIVE SeqsUpTo(_, _)
SeqsUpTo(S, n) ==
    IF n = 0 THEN {<<>>}
    ELSE SeqsUpTo(S, n - 1) \cup {Append(s, x) : s \in {t \in SeqsUpTo(S, n - 1) : Len(t) = n - 1}, x \in S}

\* results of VectorStore.similarity_search: at most MaxDocs documents, or
\* the empty list when the index query fails
CandidateLists == SeqsUpTo(Corpus, MaxDocs)

\* ------------------------------------------------------------- GeminiAgent
RECURSIVE JoinLines(_)
JoinLines(lines) ==
    IF lines = <<>> THEN <<>>
    ELSE IF Len(lines) = 1 THEN lines[1]
    ELSE lines[1] \o <<"\n">> \o JoinLines(Tail(lines))

\* _prepare_prompt that wraps the query in the context template even when
\* there is no context
prepare_prompt_always_context(query, context) ==
    <<"C", "o", "n", "t", "e", "x", "t", ":", "\n">>
    \o (IF context = None THEN <<>> ELSE JoinLines(context))
    \o <<" ", "B", "a", "s", "e", "d", " ", "o", "n", ":", "\n">> \o query \o <<"\n">>

\* GeminiAgent._prepare_prompt: the bare query when context is None or
\* empty, else the context entries joined by newlines, an instruction and
\* the query
_prepare_prompt(query, context) ==
    IF context = None \/ context = <<>> THEN query
    ELSE <<"C", "o", "n", "t", "e", "x", "t", ":", "\n">> \o JoinLines(context)
         \o <<" ", "B", "a", "s", "e", "d", " ", "o", "n", ":", "\n">> \o query \o <<"\n">>

\* generate_response whose except clause reports a message of its own
\* instead of str(e)
generate_response_generic_error(query, context, out) ==
    IF Strip(query) = <<>>
    THEN [val |-> [answer |-> None, error |-> "Query cannot be empty",
                   metadata |-> [error_type |-> "ValueError"]],
          calls |-> 0, prompt |-> <<>>]
    ELSE IF out.kind = "raise"
    THEN [val |-> [error |-> "Model call failed", answer |-> None,
                   metadata |-> [error_type |-> out.type]],
          calls |-> 1, prompt |-> _prepare_prompt(query, context)]
    ELSE IF out.text = <<>>
    THEN [val |-> [answer |-> None, error |-> "No response generated from the model",
                   metadata |-> [error_type |-> "ModelError"]],
          calls |-> 1, prompt |-> _prepare_prompt(query, context)]
    ELSE [val |-> [answer |-> Strip(out.text),
                   metadata |-> [model |-> "gemini-pro", finish_reason |-> None,
                                 prompt_tokens |-> None, completion_tokens |-> None]],
          calls |-> 1, prompt |-> _prepare_prompt(query, context)]

\* generate_response that tests the query for emptiness without trimming it
generate_response_no_strip(query, context, out) ==
    IF query = <<>>
    THEN [val |-> [answer |-> None, error |-> "Query cannot be empty",
                   metadata |-> [error_type |-> "ValueError"]],
          calls |-> 0, prompt |-> <<>>]
    ELSE IF out.kind = "raise"
    THEN [val |-> [error |-> out.msg, answer |-> None,
                   metadata |-> [error_type |-> out.type]],
          calls |-> 1, prompt |-> _prepare_prompt(query, context)]
    ELSE IF out.text = <<>>
    THEN [val |-> [answer |-> None, error |-> "No response generated from the model",
                   metadata |-> [error_type |-> "ModelError"]],
          calls |-> 1, prompt |-> _prepare_prompt(query, context)]
    ELSE [val |-> [answer |-> Strip(out.text),
                   metadata |-> [model |-> "gemini-pro", finish_reason |-> None,
                                 prompt_tokens |-> None, completion_tokens |-> None]],
          calls |-> 1, prompt |-> _prepare_prompt(query, context)]

\* GeminiAgent.generate_response(query, context, **kwargs); `out` is what the
\* model does if it is called.  Returns the result dict, the number of
\* model calls made and the prompt the model was called with.
generate_response(query, context, out) ==
    IF Strip(query) = <<>>
    THEN [val |-> [answer |-> None, error |-> "Query cannot be empty",
                   metadata |-> [error_type |-> "ValueError"]],
          calls |-> 0, prompt |-> <<>>]
    ELSE IF out.kind = "raise"
    THEN [val |-> [error |-> out.msg, answer |-> None,
                   metadata |-> [error_type |-> out.type]],
          calls |-> 1, prompt |-> _prepare_prompt(query, context)]
    ELSE IF out.text = <<>>
    THEN [val |-> [answer |-> None, error |-> "No response generated from the model",
                   metadata |-> [error_type |-> "ModelError"]],
          calls |-> 1, prompt |-> _prepare_prompt(query, context)]
    ELSE [val |-> [answer |-> Strip(out.text),
                   metadata |-> [model |-> "gemini-pro", finish_reason |-> None,
                                 prompt_tokens |-> None, completion_tokens |-> None]],
          calls |-> 1, prompt |-> _prepare_prompt(query, context)]

\* GeminiAgent.analyze_relevance: float(response.text.strip()) clamped into
\* [0, 1]; 0.0 on any exception
analyze_relevance(out) ==
    IF out.kind = "raise" THEN 0
    ELSE LET f == ParseFloat(Strip(out.text))
         IN IF ~f.ok THEN 0 ELSE PyMin(PyMax(f.val, 0), 100)

\* ---------------------------------------------------------------- RAGAgent
\* the scoring pass with the threshold excluded (> instead of >=)
RECURSIVE scoring_pass_strict(_, _)
scoring_pass_strict(candidates, replies) ==
    IF candidates = <<>> THEN <<>>
    ELSE LET relevance_score == analyze_relevance(Head(replies))
             rest == scoring_pass_strict(Tail(candidates), Tail(replies))
         IN IF relevance_score > SIMILARITY_THRESHOLD
            THEN <<Merge(Head(candidates), [score |-> relevance_score])>> \o rest
            ELSE rest

\* the scoring pass of retrieve_relevant_documents: candidates whose score
\* reaches the threshold, each with its score attached, in candidate order
RECURSIVE ScoringPass(_, _)
ScoringPass(candidates, replies) ==
    IF candidates = <<>> THEN <<>>
    ELSE LET relevance_score == analyze_relevance(Head(replies))
             rest == ScoringPass(Tail(candidates), Tail(replies))
         IN IF relevance_score >= SIMILARITY_THRESHOLD
            THEN <<Merge(Head(candidates), [score |-> relevance_score])>> \o rest
            ELSE rest

\* an insertion that puts doc before the documents of equal score (a sort
\* that is not stable)
RECURSIVE insert_before_equals(_, _)
insert_before_equals(sorted, doc) ==
    IF sorted = <<>> THEN <<doc>>
    ELSE IF Head(sorted)["score"] > doc["score"]
         THEN <<Head(sorted)>> \o insert_before_equals(Tail(sorted), doc)
         ELSE <<doc>> \o sorted

\* insert doc into a list sorted by score descending, after its equals
RECURSIVE InsertByScore(_, _)
InsertByScore(sorted, doc) ==
    IF sorted = <<>> THEN <<doc>>
    ELSE IF Head(sorted)["score"] >= doc["score"]
         THEN <<Head(sorted)>> \o InsertByScore(Tail(sorted), doc)
         ELSE <<doc>> \o sorted

\* list.sort(key=score, reverse=True): stable, descending
RECURSIVE SortByScoreDesc(_)
SortByScoreDesc(docs) ==
    IF docs = <<>> THEN <<>>
    ELSE InsertByScore(SortByScoreDesc(SubSeq(docs, 1, Len(docs) - 1)), docs[Len(docs)])

\* RAGAgent.retrieve_relevant_documents: `candidates` is what
\* similarity_search returned, replies[i] what the model does when asked to
\* score candidates[i]
retrieve_relevant_documents(candidates, replies) ==
    SortByScoreDesc(ScoringPass(candidates, replies))

\* _prepare_context that builds the context last document first
prepare_context_reversed(documents) ==
    [i \in 1..Len(documents) |->
        LET doc == documents[Len(documents) + 1 - i]
        IN doc["content"] \o <<"\n">> \o <<"S", "o", "u", "r", "c", "e", ":", " ">>
           \o Get(doc["metadata"], "source", <<"U", "n", "k", "n", "o", "w", "n">>)]

\* RAGAgent._prepare_context
_prepare_context(documents) ==
    [i \in 1..Len(documents) |->
        documents[i]["content"] \o <<"\n">> \o <<"S", "o", "u", "r", "c", "e", ":", " ">>
        \o Get(documents[i]["metadata"], "source", <<"U", "n", "k", "n", "o", "w", "n">>)]

\* str(e) of the TypeError Python raises when a keyword is passed twice
DuplicateContextMsg ==
    "GeminiAgent.generate_response() got multiple values for keyword argument 'context'"

NoInfoAnswer ==
    <<"I", " ", "c", "o", "u", "l", "d", "n", "'", "t", " ", "f", "i", "n", "d">>

\* the sources process_query attaches to a successful response
Sources(relevant_docs) ==
    [i \in 1..Len(relevant_docs) |->
        [content |-> relevant_docs[i]["content"],
         metadata |-> relevant_docs[i]["metadata"],
         relevance_score |-> relevant_docs[i]["score"]]]

\* what process_query handed to the Answer Generator: whether
\* GeminiAgent.generate_response was entered, the context it was given and
\* the prompt the model was called with (empty when no model call was made)
NoGen == [invoked |-> FALSE, context |-> <<>>, prompt |-> <<>>]

\* RAGAgent.process_query(query, **kwargs).  relevant_docs is the result of
\* the retrieval it runs first; `out` is what the model does if called.
\* The call self.llm.generate_response(query=query, context=context,
\* **kwargs) raises TypeError when kwargs itself carries "query" or
\* "context"; the except clause turns every exception into an error result.
process_query(query, kwargs, relevant_docs, out) ==
    LET context == IF relevant_docs # <<>> THEN _prepare_context(relevant_docs) ELSE <<>>
    IN IF "context" \in DOMAIN kwargs \/ "query" \in DOMAIN kwargs
       THEN [val |-> [error |-> DuplicateContextMsg, answer |-> None, sources |-> <<>>,
                      metadata |-> [error_type |-> "TypeError"]],
             calls |-> 0, gen |-> NoGen]
       ELSE LET r == generate_response(query, context, out)
                response == r.val
                gen == [invoked |-> TRUE, context |-> context, prompt |-> r.prompt]
            IN IF TruthyMsg(Get(response, "error", ""))
               THEN [val |-> response, calls |-> r.calls, gen |-> gen]
               ELSE LET withSources == Merge(response, [sources |-> Sources(relevant_docs)])
                    IN [val |-> IF ~TruthyText(Get(withSources, "answer", None))
                                THEN Merge(withSources, [answer |-> NoInfoAnswer])
                                ELSE withSources,
                        calls |-> r.calls, gen |-> gen]

\* ------------------------------------------------------------- RAGWorkflow
VARIABLES
    pc,          \* "idle", the node run() executes next, "END", "returned",
                 \* or "called" after a direct call of one node function
    state,       \* the loop state dict threaded through the nodes
    result,      \* what run() returned
    taken,       \* targets of the edges followed after the last node
    model,       \* what the generative model replies: [answer, rating]
    retrievals,  \* calls of RAGAgent.retrieve_relevant_documents so far
    generations, \* executions of _generate_response so far
    modelCalls,  \* generate_content_async calls made by generate_response
    applied,     \* direct call: the node function called
    before,      \* direct call: the state or the arguments it was given
    returned,    \* direct call: the value returned / the exception's type
    raised,      \* the exception that left the last handler: [type, msg]
    passed       \* what the last process_query handed to the Answer Generator

\* the variables of one workflow call
wfVars == <<pc, state, result, taken, model, retrievals, generations, modelCalls,
            applied, before, returned, raised, passed>>

\* the background services (EmailSyncService, VectorStore, EmbeddingUtil)
VARIABLES
    spc,         \* the sync loop: "stopped" (not started), "syncing" or
                 \* "sleeping"
    index,       \* the IDs held by the vector index, in insertion order
    wait,        \* seconds of the sleep the sync loop is in (0: none)
    call         \* the last sync cycle, or the last direct call of
                 \* add_documents or of an embedding method: what it was
                 \* given and what it returned

svcVars == <<spc, index, wait, call>>

\* two runs of the workflow in progress at once on one RAGWorkflow
VARIABLES
    env,         \* per run: the inputs and the external responses it meets
    runs         \* per run: its position, loop state and result

concVars == <<env, runs>>

\* the collection of the vector store with the callers that write to it
VARIABLES
    stored,      \* the documents the collection holds: [id, email_id], in
                 \* insertion order
    adders       \* per caller of add_documents: whether its insert is
                 \* awaited on the executor, the IDs it assigned, the
                 \* documents, the IDs the collection held at that moment
                 \* and the value the last call returned

storeVars == <<stored, adders>>

vars == <<wfVars, svcVars, concVars, storeVars>>

END == "__end__"

NoException == [type |-> "", msg |-> ""]

\* outcome of a node function: the new state, or the exception it raised
Ok(st, calls) == [exc |-> "", msg |-> "", state |-> st, calls |-> calls]
Raised(ty, msg, calls) == [exc |-> ty, msg |-> msg, state |-> EmptyDict, calls |-> calls]

\* outcome of _generate_response: also what reached the Answer Generator
OkGen(st, r) == Merge(Ok(st, r.calls), [gen |-> r.gen])

\* RAGWorkflow._retrieve_context
_retrieve_context(st, relevant_docs) ==
    IF "query" \notin DOMAIN st THEN Raised("KeyError", "'query'", 0)
    ELSE Ok(Merge(st, [context |-> relevant_docs, attempt |-> 0]), 0)

\* _generate_response that stores the response without counting the attempt
generate_response_no_increment(st, relevant_docs, out) ==
    IF "query" \notin DOMAIN st THEN Raised("KeyError", "'query'", 0)
    ELSE LET context == Get(st, "context", <<>>)
             kwargs == [context |-> [i \in 1..Len(context) |-> context[i]["content"]]]
             r == process_query(st["query"], kwargs, relevant_docs, out)
         IN OkGen(Merge(st, [response |-> r.val, attempt |-> Get(st, "attempt", 0)]), r)

\* RAGWorkflow._generate_response.  relevant_docs is what the retrieval
\* inside process_query returns, out what the model does if called.
_generate_response(st, relevant_docs, out) ==
    IF "query" \notin DOMAIN st THEN Raised("KeyError", "'query'", 0)
    ELSE LET context == Get(st, "context", <<>>)
             kwargs == [context |-> [i \in 1..Len(context) |-> context[i]["content"]]]
             r == process_query(st["query"], kwargs, relevant_docs, out)
         IN OkGen(Merge(st, [response |-> r.val, attempt |-> Get(st, "attempt", 0) + 1]), r)

\* the f-string prompt of _validate_response
validation_prompt(answer) ==
    <<"R", "a", "t", "e", ":", "\n">>
    \o (IF answer = None THEN <<"N", "o", "n", "e">> ELSE answer)
    \o <<"\n", "\n", "s", "c", "o", "r", "e", ".">>

\* the scoring path of _validate_response (lines 83-92): the model is asked
\* to rate the answer and its reply is parsed as a float
ScoreResponse(st, response, out) ==
    IF "answer" \notin DOMAIN response THEN Raised("KeyError", "'answer'", 0)
    ELSE LET q == generate_response(validation_prompt(response["answer"]), None, out)
         IN IF q.val["answer"] = None
            THEN Raised("AttributeError",
                        "'NoneType' object has no attribute 'strip'", q.calls)
            ELSE LET f == ParseFloat(Strip(q.val["answer"]))
                 IN IF ~f.ok
                    THEN Raised("ValueError", "could not convert string to float", q.calls)
                    ELSE Ok(Merge(st, [valid |-> f.val >= VALIDATION_THRESHOLD,
                                       quality_score |-> f.val]),
                            q.calls)

\* _validate_response with the threshold excluded (> instead of >=)
validate_response_strict(st, out) ==
    IF "response" \notin DOMAIN st THEN Raised("KeyError", "'response'", 0)
    ELSE LET response == st["response"]
         IN IF TruthyMsg(Get(response, "error", ""))
            THEN Ok(Merge(st, [valid |-> FALSE, error |-> response["error"]]), 0)
            ELSE LET r == ScoreResponse(st, response, out)
                 IN IF r.exc # "" THEN r
                    ELSE Ok(Merge(r.state,
                                  [valid |-> r.state["quality_score"] > VALIDATION_THRESHOLD]),
                            r.calls)

\* _validate_response whose short-circuit reports a message of its own
\* instead of the response's error
validate_response_drops_error(st, out) ==
    IF "response" \notin DOMAIN st THEN Raised("KeyError", "'response'", 0)
    ELSE LET response == st["response"]
         IN IF TruthyMsg(Get(response, "error", ""))
            THEN Ok(Merge(st, [valid |-> FALSE, error |-> "Validation failed"]), 0)
            ELSE ScoreResponse(st, response, out)

\* _validate_response that treats a reply it cannot score as an invalid
\* response instead of raising
validate_response_lenient(st, out) ==
    IF "response" \notin DOMAIN st THEN Raised("KeyError", "'response'", 0)
    ELSE LET response == st["response"]
         IN IF TruthyMsg(Get(response, "error", ""))
            THEN Ok(Merge(st, [valid |-> FALSE, error |-> response["error"]]), 0)
            ELSE LET r == ScoreResponse(st, response, out)
                 IN IF r.exc # "" /\ "answer" \in DOMAIN response
                    THEN Ok(Merge(st, [valid |-> FALSE]), r.calls)
                    ELSE r

\* RAGWorkflow._validate_response; out is what the model does if called
_validate_response(st, out) ==
    IF "response" \notin DOMAIN st THEN Raised("KeyError", "'response'", 0)
    ELSE LET response == st["response"]
         IN IF TruthyMsg(Get(response, "error", ""))
            THEN Ok(Merge(st, [valid |-> FALSE, error |-> response["error"]]), 0)
            ELSE ScoreResponse(st, response, out)

\* _should_regenerate with the bound off by one (<= 3)
should_regenerate_off_by_one(st) ==
    ~Get(st, "valid", FALSE) /\ Get(st, "attempt", 0) <= MAX_ATTEMPTS

\* _should_regenerate that gives up one attempt early
should_regenerate_two_attempts(st) ==
    ~Get(st, "valid", FALSE) /\ Get(st, "attempt", 0) < MAX_ATTEMPTS - 1

\* _should_regenerate that looks at the attempt count only
should_regenerate_ignores_valid(st) ==
    Get(st, "attempt", 0) < MAX_ATTEMPTS

\* RAGWorkflow._should_regenerate
_should_regenerate(st) ==
    ~Get(st, "valid", FALSE) /\ Get(st, "attempt", 0) < MAX_ATTEMPTS

\* RAGWorkflow._build_graph: the nodes, the unconditional edges (add_edge),
\* the conditional edges (add_conditional_edges) and the entry point
_build_graph ==
    [nodes |-> {"retrieve", "generate", "validate"},
     edges |-> {<<"retrieve", "generate">>, <<"generate", "validate">>, <<"validate", END>>},
     branches |-> [validate |-> [b \in BOOLEAN |-> IF b THEN "generate" ELSE END]],
     entry |-> "retrieve"]

\* the targets the compiled graph follows after `node` has produced st:
\* every unconditional edge leaving the node, and the target the node's
\* conditional edge selects
Successors(node, st) ==
    {e[2] : e \in {d \in _build_graph.edges : d[1] = node}}
    \cup (IF node \in DOMAIN _build_graph.branches
          THEN {_build_graph.branches[node][_should_regenerate(st)]}
          ELSE {})

\* the node that runs next: a target that is a node; END is no node, the
\* graph stops when no node is left to run
NextNode(targets) ==
    IF targets \cap _build_graph.nodes = {} THEN "END"
    ELSE CHOOSE n \in targets \cap _build_graph.nodes : TRUE

\* an except clause that reports the class name as the message
error_result_type_as_message(ty, msg) ==
    [error |-> ty, answer |-> None, sources |-> <<>>, metadata |-> [error_type |-> ty]]

\* run(): the except clause
ErrorResult(ty, msg) ==
    [error |-> msg, answer |-> None, sources |-> <<>>, metadata |-> [error_type |-> ty]]

\* a final response that never reports the quality score
format_result_no_score(st) ==
    LET response == st["response"]
    IN [answer |-> response["answer"],
        sources |-> Get(response, "sources", <<>>),
        metadata |-> Merge(Get(response, "metadata", EmptyDict),
                           [quality_score |-> NoneScore,
                            attempts |-> Get(st, "attempt", 1)])]

\* run(): "Format final response"
FormatResult(st) ==
    LET response == st["response"]
    IN [answer |-> response["answer"],
        sources |-> Get(response, "sources", <<>>),
        metadata |-> Merge(Get(response, "metadata", EmptyDict),
                           [quality_score |-> Get(st, "quality_score", NoneScore),
                            attempts |-> Get(st, "attempt", 1)])]

\* ------------------------------------------------------------------ inputs
Queries == {<<>>, <<"q">>}

\* the dicts run() is called with: main.py passes query and the request's
\* context (a dict, written here as the list of its items)
Inputs ==
    {EmptyDict}
    \cup {[query |-> q] : q \in Queries}
    \cup {[query |-> <<"q">>, context |-> <<[key |-> "email_content", value |-> <<"m">>]>>]}

Models == [answer : AnswerOutcomes, rating : RatingOutcomes]

\* before any call: no model behaviour chosen
NoModel == [answer |-> Text(<<>>), rating |-> Text(<<>>)]

\* the retrievals the index and the relevance scorer can produce
Retrievals ==
    UNION {{retrieve_relevant_documents(c, r) : r \in [1..Len(c) -> RelevanceOutcomes]} :
           c \in CandidateLists}

\* a retrieval that kept one document
OneDoc == retrieve_relevant_documents(
              <<[content |-> <<"a">>, metadata |-> [source |-> <<"s">>], distance |-> 10]>>,
              <<Text(<<"0", ".", "9">>)>>)

\* Generation Results process_query can return
GenerationResults ==
    {process_query(q, kw, docs, out).val :
        q \in Queries, kw \in {EmptyDict, [context |-> <<>>]},
        docs \in {<<>>, OneDoc}, out \in AnswerOutcomes}

Optional(key, values) == {EmptyDict} \cup {(key :> v) : v \in values}

\* loop states a node function is called with directly (as the tests of the
\* workflow do): any subset of the keys the nodes write
LoopStates ==
    {Merge(Merge(Merge(Merge(Merge(b, a), r), v), s), e) :
        b \in {EmptyDict} \cup {[query |-> <<"q">>, context |-> d] : d \in {<<>>, OneDoc}},
        a \in Optional("attempt", 1..MAX_ATTEMPTS),
        r \in Optional("response", GenerationResults),
        v \in Optional("valid", BOOLEAN),
        s \in Optional("quality_score", {80}),
        e \in Optional("error", {"quota exceeded"})}

\* states _retrieve_context is called with directly: inputs of run(), or a
\* state of an earlier pass that has a query, a context and an attempt count
RetrieveArgs ==
    Inputs \cup {s \in LoopStates : DOMAIN s \subseteq {"query", "context", "attempt"}}

\* queries the agents are called with directly
AgentQueries == Queries \cup {<<" ", "\n">>}

\* the context argument of a direct generate_response call: none, or one
\* entry
GeneratorContexts == {<<>>, <<<<"c">>>>}

\* the keyword arguments of a direct process_query call: none, or a context
\* as the workflow passes it
QueryKwargs == {EmptyDict, [context |-> <<>>]}

\* exceptions graph.arun raises: the graph cannot be executed, or a node
\* raised (the validator's float() or .strip() on the rating reply)
GraphFaults ==
    {Raise("Exception", "Test error"), Raise("RuntimeError", ""),
     Raise("ValueError", "could not convert string to float"),
     Raise("AttributeError", "'NoneType' object has no attribute 'strip'")}

\* --------------------------------------------------------------------- Init
\* no background service started, an empty index, no call made
NoCall == [name |-> "none"]

ServicesAtRest ==
    /\ spc = "stopped"
    /\ index = <<>>
    /\ wait = 0
    /\ call = NoCall

\* the requests served at once: each awaits workflow.run on the one
\* RAGWorkflow the application creates
RunIds == {1, 2}

\* no run started: nothing met, no loop state yet
NoEnv == [inputs |-> EmptyDict, model |-> NoModel, docs |-> <<>>]
IdleRun ==
    [pc |-> "idle", state |-> EmptyDict, result |-> EmptyDict, generations |-> 0,
     overlapped |-> FALSE]

\* no concurrent runs in progress
NoRuns ==
    /\ env = [i \in RunIds |-> NoEnv]
    /\ runs = [i \in RunIds |-> IdleRun]

\* the callers of add_documents: the background mailbox sync and
\* RAGAgent.add_document
Callers == {"sync", "agent"}

IdleAdder ==
    [pc |-> "idle", ids |-> <<>>, documents |-> <<>>, seen |-> {}, value |-> FALSE]

\* an empty collection, no add_documents call under way
StoreAtRest ==
    /\ stored = <<>>
    /\ adders = [c \in Callers |-> IdleAdder]

Init ==
    /\ pc = "idle"
    /\ state = EmptyDict
    /\ result = EmptyDict
    /\ taken = {}
    /\ model = NoModel
    /\ retrievals = 0
    /\ generations = 0
    /\ modelCalls = 0
    /\ applied = "none"
    /\ before = EmptyDict
    /\ returned = [exc |-> "", value |-> FALSE]
    /\ raised = NoException
    /\ passed = NoGen
    /\ ServicesAtRest
    /\ NoRuns
    /\ StoreAtRest

\* ------------------------------------------------------------ run(): steps
\* run(inputs) is called: graph.arun(inputs) executes the compiled graph
\* from its entry point on the state `inputs`; the model's replies for this
\* run are fixed here
Run ==
    /\ pc = "idle"
    /\ \E inputs \in Inputs, m \in Models :
        /\ state' = inputs
        /\ model' = m
    /\ pc' = _build_graph.entry
    /\ UNCHANGED <<result, taken, retrievals, generations, modelCalls,
                   applied, before, returned, raised, passed>>
    /\ UNCHANGED <<svcVars, concVars, storeVars>>

\* a node of the graph has produced r: the state is replaced and the edges
\* leaving the node are followed, or the exception reaches run()'s except
\* clause, which returns the error result
NodeDone(node, r) ==
    IF r.exc # ""
    THEN /\ result' = ErrorResult(r.exc, r.msg)
         /\ raised' = [type |-> r.exc, msg |-> r.msg]
         /\ pc' = "returned"
         /\ UNCHANGED <<state, taken>>
    ELSE /\ state' = r.state
         /\ taken' = Successors(node, r.state)
         /\ pc' = NextNode(Successors(node, r.state))
         /\ UNCHANGED <<result, raised>>

Retrieve ==
    /\ pc = "retrieve"
    /\ \E docs \in Retrievals :
        /\ NodeDone("retrieve", _retrieve_context(state, docs))
        /\ retrievals' = IF "query" \in DOMAIN state THEN retrievals + 1 ELSE retrievals
    /\ UNCHANGED <<model, generations, modelCalls, applied, before, returned, passed>>
    /\ UNCHANGED <<svcVars, concVars, storeVars>>

Generate ==
    /\ pc = "generate"
    /\ \E docs \in Retrievals :
        LET r == _generate_response(state, docs, model.answer)
        IN /\ NodeDone("generate", r)
           /\ modelCalls' = modelCalls + r.calls
           /\ passed' = Get(r, "gen", NoGen)
           /\ retrievals' = IF "query" \in DOMAIN state THEN retrievals + 1 ELSE retrievals
    /\ generations' = generations + 1
    /\ UNCHANGED <<model, applied, before, returned>>
    /\ UNCHANGED <<svcVars, concVars, storeVars>>

Validate ==
    /\ pc = "validate"
    /\ LET r == _validate_response(state, model.rating)
       IN /\ NodeDone("validate", r)
          /\ modelCalls' = modelCalls + r.calls
    /\ UNCHANGED <<model, retrievals, generations, applied, before, returned, passed>>
    /\ UNCHANGED <<svcVars, concVars, storeVars>>

\* graph.arun returned: run() formats the final response
Finish ==
    /\ pc = "END"
    /\ result' = IF "response" \in DOMAIN state THEN FormatResult(state)
                 ELSE ErrorResult("KeyError", "'response'")
    /\ raised' = IF "response" \in DOMAIN state THEN raised
                 ELSE [type |-> "KeyError", msg |-> "'response'"]
    /\ pc' = "returned"
    /\ UNCHANGED <<state, taken, model, retrievals, generations, modelCalls,
                   applied, before, returned, passed>>
    /\ UNCHANGED <<svcVars, concVars, storeVars>>

\* ------------------------------------------- node functions called directly
Called(name, st, r) ==
    /\ pc' = "called"
    /\ applied' = name
    /\ before' = st
    /\ state' = r.state
    /\ returned' = [exc |-> r.exc, value |-> FALSE]
    /\ raised' = [type |-> r.exc, msg |-> r.msg]
    /\ passed' = Get(r, "gen", NoGen)
    /\ modelCalls' = modelCalls + r.calls
    /\ UNCHANGED <<result, taken>>

CallRetrieveContext ==
    /\ pc = "idle"
    /\ \E st \in RetrieveArgs, docs \in Retrievals :
        /\ Called("retrieve", st, _retrieve_context(st, docs))
        /\ retrievals' = IF "query" \in DOMAIN st THEN retrievals + 1 ELSE retrievals
    /\ UNCHANGED <<model, generations>>
    /\ UNCHANGED <<svcVars, concVars, storeVars>>

CallGenerateResponse ==
    /\ pc = "idle"
    /\ \E st \in LoopStates, docs \in Retrievals, out \in AnswerOutcomes :
        /\ Called("generate", st, _generate_response(st, docs, out))
        /\ model' = [NoModel EXCEPT !.answer = out]
        /\ retrievals' = IF "query" \in DOMAIN st THEN retrievals + 1 ELSE retrievals
    /\ generations' = generations + 1
    /\ UNCHANGED <<svcVars, concVars, storeVars>>

CallValidateResponse ==
    /\ pc = "idle"
    /\ \E st \in LoopStates, out \in RatingOutcomes :
        /\ Called("validate", st, _validate_response(st, out))
        /\ model' = [NoModel EXCEPT !.rating = out]
    /\ UNCHANGED <<retrievals, generations>>
    /\ UNCHANGED <<svcVars, concVars, storeVars>>

CallShouldRegenerate ==
    /\ pc = "idle"
    /\ \E st \in LoopStates :
        /\ pc' = "called"
        /\ applied' = "should_regenerate"
        /\ before' = st
        /\ state' = st
        /\ returned' = [exc |-> "", value |-> _should_regenerate(st)]
    /\ UNCHANGED <<result, taken, model, retrievals, generations, modelCalls,
                   raised, passed>>
    /\ UNCHANGED <<svcVars, concVars, storeVars>>

\* ------------------------------------------------- agents called directly
\* a direct call of an agent method with arguments args that returned value
AgentCalled(name, args, value) ==
    /\ pc' = "called"
    /\ applied' = name
    /\ before' = args
    /\ returned' = [exc |-> "", value |-> value]
    /\ raised' = NoException
    /\ UNCHANGED <<state, result, taken, generations>>

CallAnalyzeRelevance ==
    /\ pc = "idle"
    /\ \E out \in RelevanceOutcomes :
        AgentCalled("analyze_relevance", [reply |-> out], analyze_relevance(out))
    /\ UNCHANGED <<model, retrievals, modelCalls, passed>>
    /\ UNCHANGED <<svcVars, concVars, storeVars>>

CallRetrieveRelevantDocuments ==
    /\ pc = "idle"
    /\ \E c \in CandidateLists : \E replies \in [1..Len(c) -> RelevanceOutcomes] :
        AgentCalled("retrieve_relevant_documents",
                    [candidates |-> c, replies |-> replies],
                    retrieve_relevant_documents(c, replies))
    /\ retrievals' = retrievals + 1
    /\ UNCHANGED <<model, modelCalls, passed>>
    /\ UNCHANGED <<svcVars, concVars, storeVars>>

CallGeminiGenerateResponse ==
    /\ pc = "idle"
    /\ \E query \in AgentQueries, context \in GeneratorContexts, out \in AnswerOutcomes :
        LET r == generate_response(query, context, out)
        IN /\ AgentCalled("GeminiAgent.generate_response",
                          [query |-> query, context |-> context, reply |-> out], r.val)
           /\ passed' = [invoked |-> TRUE, context |-> context, prompt |-> r.prompt]
           /\ modelCalls' = modelCalls + r.calls
           /\ model' = [NoModel EXCEPT !.answer = out]
    /\ UNCHANGED retrievals
    /\ UNCHANGED <<svcVars, concVars, storeVars>>

CallProcessQuery ==
    /\ pc = "idle"
    /\ \E query \in AgentQueries, kwargs \in QueryKwargs, c \in CandidateLists,
          out \in AnswerOutcomes :
        \E replies \in [1..Len(c) -> RelevanceOutcomes] :
            LET r == process_query(query, kwargs, retrieve_relevant_documents(c, replies), out)
            IN /\ AgentCalled("process_query",
                              [query |-> query, kwargs |-> kwargs, candidates |-> c,
                               replies |-> replies, reply |-> out], r.val)
               /\ passed' = r.gen
               /\ modelCalls' = modelCalls + r.calls
               /\ model' = [NoModel EXCEPT !.answer = out]
    /\ retrievals' = retrievals + 1
    /\ UNCHANGED <<svcVars, concVars, storeVars>>

\* _prepare_context called with the documents a retrieval returned
CallPrepareContext ==
    /\ pc = "idle"
    /\ \E documents \in Retrievals :
        AgentCalled("_prepare_context", [documents |-> documents],
                    _prepare_context(documents))
    /\ UNCHANGED <<model, retrievals, modelCalls, passed>>
    /\ UNCHANGED <<svcVars, concVars, storeVars>>

\* ---------------------------------------------- run() with graph.arun mocked
\* graph.arun returns final_state without executing the nodes; run() then
\* formats it (Finish)
ArunReturns ==
    /\ pc = "idle"
    /\ \E st \in LoopStates :
        /\ state' = st
        /\ before' = st
    /\ pc' = "END"
    /\ applied' = "arun"
    /\ UNCHANGED <<result, taken, model, retrievals, generations, modelCalls,
                   returned, raised, passed>>
    /\ UNCHANGED <<svcVars, concVars, storeVars>>

\* graph.arun raises before any node has run; the except clause of run()
\* returns the error result
ArunRaises ==
    /\ pc = "idle"
    /\ \E inputs \in Inputs, e \in GraphFaults :
        /\ state' = inputs
        /\ before' = inputs
        /\ raised' = [type |-> e.type, msg |-> e.msg]
        /\ result' = ErrorResult(e.type, e.msg)
    /\ pc' = "returned"
    /\ applied' = "arun"
    /\ UNCHANGED <<taken, model, retrievals, generations, modelCalls, returned, passed>>
    /\ UNCHANGED <<svcVars, concVars, storeVars>>

Next ==
    \/ Run
    \/ Retrieve
    \/ Generate
    \/ Validate
    \/ Finish
    \/ CallRetrieveContext
    \/ CallGenerateResponse
    \/ CallValidateResponse
    \/ CallShouldRegenerate
    \/ CallAnalyzeRelevance
    \/ CallRetrieveRelevantDocuments
    \/ CallGeminiGenerateResponse
    \/ CallProcessQuery
    \/ CallPrepareContext
    \/ ArunReturns
    \/ ArunRaises

Spec == Init /\ [][Next]_vars

\* ============================================================= EmbeddingUtil
\* Embedding vectors are represented by their dimension and their kind:
\* "real" (computed by the embedding client), "zero" (all 0.0), "none"
\* (Python None in place of a vector) or "invalid" (a value that is no list
\* of numbers).
EMBEDDING_DIM == 768

RealVec == [dim |-> EMBEDDING_DIM, kind |-> "real"]
ZeroVec == [dim |-> EMBEDDING_DIM, kind |-> "zero"]
NoneVec == [dim |-> 0, kind |-> "none"]
InvalidVec == [dim |-> 0, kind |-> "invalid"]

\* a Python value that is one vector (a list of floats), or a list of vectors
OneVector(v) == [shape |-> "vector", vecs |-> <<v>>]
VectorList(vs) == [shape |-> "vectors", vecs |-> vs]

\* What the embedding client does on successive calls (aembed_query,
\* aembed_documents): "ok" returns one vector per text, "none" returns None
\* in place of each vector, "raise" raises.
ClientScripts ==
    {<<"ok">>, <<"raise">>, <<"none">>, <<"raise", "raise", "ok">>, <<"raise", "ok">>}

\* what PCA.fit / PCA.transform do: return, or raise (sklearn rejects
\* n_components = 768 when fewer samples are given)
PcaOutcomes == {"ok", "raise"}

\* the text argument of get_embedding: one str, or a list of n strs
TextArgs == {[single |-> TRUE, n |-> 1], [single |-> FALSE, n |-> 1], [single |-> FALSE, n |-> 2]}

\* n copies of v
Repeat(v, n) == [i \in 1..n |-> v]

\* EmbeddingUtil.get_embedding(text): one client call; any exception gives
\* the fallback [0.0] * 768, whatever the shape of the input
get_embedding(text, script, pca) ==
    LET out == Head(script)
    IN IF out = "raise" \/ out = "none" \/ pca = "raise"
       THEN [value |-> OneVector(ZeroVec), calls |-> 1]
       ELSE IF text.single
       THEN [value |-> OneVector(RealVec), calls |-> 1]
       ELSE [value |-> VectorList(Repeat(RealVec, text.n)), calls |-> 1]

\* EmbeddingUtil.batch_get_embeddings(texts): one aembed_documents call whose
\* result is returned as it is; any exception gives one zero vector per text
batch_get_embeddings(n, script) ==
    LET out == Head(script)
    IN IF out = "raise" THEN [value |-> VectorList(Repeat(ZeroVec, n)), calls |-> 1]
       ELSE IF out = "none" THEN [value |-> VectorList(Repeat(NoneVec, n)), calls |-> 1]
       ELSE [value |-> VectorList(Repeat(RealVec, n)), calls |-> 1]

\* =============================================================== VectorStore
DigitChar(d) == CHOOSE c \in Digits : DigitVal(c) = d

\* str(n) of a non-negative int
RECURSIVE IntToStr(_)
IntToStr(n) ==
    IF n < 10 THEN <<DigitChar(n)>>
    ELSE IntToStr(n \div 10) \o <<DigitChar(n % 10)>>

\* what collection.add does with embeddings it can store: "ok", or "raise"
AddOutcomes == {"ok", "raise"}

\* the index validates the embeddings it is given and raises on a value
\* that is no list of numbers
Storable(documents) ==
    \A k \in 1..Len(documents) : documents[k]["embedding"].kind \in {"real", "zero"}

\* add_documents that numbers the documents of every call from 0
add_documents_ids_from_zero(documents, idx, addOut) ==
    LET ids == [k \in 1..Len(documents) |-> IntToStr(k - 1)]
    IN IF ~Storable(documents) \/ addOut = "raise"
       THEN [value |-> FALSE, index |-> idx, addCalls |-> 1, ids |-> ids]
       ELSE [value |-> TRUE, index |-> idx \o ids, addCalls |-> 1, ids |-> ids]

\* VectorStore.add_documents(documents) on the index idx: the IDs are
\* str(count) .. str(count + n - 1), collection.add is called with them,
\* and any exception gives False
add_documents(documents, idx, addOut) ==
    LET ids == [k \in 1..Len(documents) |-> IntToStr(Len(idx) + k - 1)]
    IN IF ~Storable(documents) \/ addOut = "raise"
       THEN [value |-> FALSE, index |-> idx, addCalls |-> 1, ids |-> ids]
       ELSE [value |-> TRUE, index |-> idx \o ids, addCalls |-> 1, ids |-> ids]

\* ========================================================== EmailSyncService
SYNC_INTERVAL == 300
BACKOFF == 60
BATCH_SIZE == 10

\* a Python return value that is a bool, or a list of documents
PyBool(b) == [type |-> "bool", bool |-> b, docs |-> <<>>]
PyList(docs) == [type |-> "list", bool |-> FALSE, docs |-> docs]

\* messages the mailbox returns: with a snippet, with an empty snippet,
\* without a snippet key, and without an id
WithSnippet == [id |-> <<"m", "1">>, snippet |-> <<"t">>]
EmptySnippet == [id |-> <<"m", "2">>, snippet |-> <<>>]
NoSnippet == [id |-> <<"m", "3">>]
NoId == [snippet |-> <<"u">>]

\* what the mailbox holds when it is fetched
Mailbox ==
    { <<>>,
      <<WithSnippet>>, <<EmptySnippet>>, <<NoSnippet>>, <<NoId>>,
      <<WithSnippet, WithSnippet>>, <<WithSnippet, EmptySnippet>>,
      <<EmptySnippet, NoSnippet>>, <<NoSnippet, WithSnippet>>,
      <<WithSnippet, NoId>> }

\* what gmail_client.get_messages does: returns messages, or raises
Fetched(messages) == [kind |-> "messages", messages |-> messages]
FetchFailed == [kind |-> "raise", messages |-> <<>>]

Snippet(msg) == Get(msg, "snippet", <<>>)

\* the messages of a batch that have a non-empty snippet
ValidMessages(batch) == SelectSeq(batch, LAMBDA msg : Snippet(msg) # <<>>)

\* lines 63-81: the documents of a batch, one per message whose embedding
\* is not None (zip stops at the shorter list)
RECURSIVE BatchDocuments(_, _)
BatchDocuments(valid_messages, embeddings) ==
    IF valid_messages = <<>> \/ embeddings = <<>> THEN <<>>
    ELSE LET msg == Head(valid_messages)
             rest == BatchDocuments(Tail(valid_messages), Tail(embeddings))
         IN IF Head(embeddings).kind = "none" THEN rest
            ELSE <<[content |-> msg["snippet"],
                    embedding |-> Head(embeddings),
                    metadata |-> [email_id |-> Get(msg, "id", <<>>),
                                  source |-> "gmail", type |-> "email",
                                  timestamp |-> <<>>,
                                  subject |-> "No subject"]]>> \o rest

\* msg["id"] raises KeyError for a message that gets a document and has no id
NeedsMissingId(valid_messages, embeddings) ==
    \E k \in 1..Len(valid_messages) :
        /\ k <= Len(embeddings)
        /\ embeddings[k].kind # "none"
        /\ "id" \notin DOMAIN valid_messages[k]

\* the local variables of sync_emails before the first batch: `documents`
\* is not bound yet
NoBatchYet(idx) ==
    [bound |-> FALSE, documents |-> <<>>, index |-> idx, exc |-> "",
     embedCalls |-> 0, addCalls |-> 0, successful_syncs |-> 0, failed_syncs |-> 0]

\* lines 47-88: the loop over the batches of BATCH_SIZE messages; embedOut
\* and addOut are what the embedding client and the index do in each batch
RECURSIVE SyncBatches(_, _, _, _)
SyncBatches(messages, acc, embedOut, addOut) ==
    IF messages = <<>> \/ acc.exc # "" THEN acc
    ELSE LET batch == SubSeq(messages, 1, IF Len(messages) < BATCH_SIZE THEN Len(messages)
                                                                          ELSE BATCH_SIZE)
             rest == SubSeq(messages, Len(batch) + 1, Len(messages))
             valid_messages == ValidMessages(batch)
         IN IF valid_messages = <<>> THEN SyncBatches(rest, acc, embedOut, addOut)
            ELSE LET e == batch_get_embeddings(Len(valid_messages), embedOut)
                     embeddings == e.value.vecs
                     documents == BatchDocuments(valid_messages, embeddings)
                     missing == Cardinality({k \in 1..Len(embeddings) :
                                                embeddings[k].kind = "none"})
                     a == add_documents(documents, acc.index, addOut)
                     after ==
                        IF NeedsMissingId(valid_messages, embeddings)
                        THEN [acc EXCEPT !.exc = "KeyError",
                                         !.embedCalls = @ + e.calls]
                        ELSE IF documents = <<>>
                        THEN [acc EXCEPT !.bound = TRUE, !.documents = <<>>,
                                         !.embedCalls = @ + e.calls,
                                         !.failed_syncs = @ + missing]
                        ELSE [acc EXCEPT !.bound = TRUE, !.documents = documents,
                                         !.index = a.index,
                                         !.embedCalls = @ + e.calls,
                                         !.addCalls = @ + a.addCalls,
                                         !.successful_syncs =
                                             @ + (IF a.value THEN Len(documents) ELSE 0),
                                         !.failed_syncs =
                                             @ + missing
                                               + (IF a.value THEN 0 ELSE Len(documents))]
                 IN SyncBatches(rest, after, embedOut, addOut)

\* EmailSyncService.sync_emails on the index idx.  It returns True when
\* there is no message, False from its except clause (a failed fetch, a
\* KeyError, or the unbound local `documents` read at line 89 when no batch
\* had a snippet), and otherwise the local `documents` (line 91).
sync_emails(fetch, embedOut, addOut, idx) ==
    LET acc == SyncBatches(fetch.messages, NoBatchYet(idx), embedOut, addOut)
        done(value, a) ==
            [value |-> value, exc |-> "", index |-> a.index,
             embedCalls |-> a.embedCalls, addCalls |-> a.addCalls,
             successful_syncs |-> a.successful_syncs, failed_syncs |-> a.failed_syncs]
    IN IF fetch.kind = "raise" THEN done(PyBool(FALSE), NoBatchYet(idx))
       ELSE IF fetch.messages = <<>> THEN done(PyBool(TRUE), NoBatchYet(idx))
       ELSE IF acc.exc # "" \/ ~acc.bound THEN done(PyBool(FALSE), acc)
       ELSE done(PyList(acc.documents), acc)

\* start() after a cycle that stops the loop when sync_emails failed
loop_stops_on_failure(r) ==
    IF r.value = PyBool(FALSE) THEN [spc |-> "exited", wait |-> 0]
    ELSE [spc |-> "sleeping", wait |-> SYNC_INTERVAL]

\* EmailSyncService.start after sync_emails has ended with r: sleep
\* sync_interval, or 60 seconds when an exception reached the except clause
AfterCycle(r) ==
    [spc |-> "sleeping", wait |-> IF r.exc # "" THEN BACKOFF ELSE SYNC_INTERVAL]

\* ------------------------------------------------------------ service steps
\* bound: the index holds at most MaxIndex documents (the mailbox and the
\* callers stop delivering when it is full)
MaxIndex == 3

FetchOutcomes == {FetchFailed} \cup {Fetched(m) : m \in Mailbox}

\* what the embedding client does in a sync cycle
CycleScripts == {<<"ok">>, <<"raise">>, <<"none">>}

\* documents add_documents is called with directly
DirectDocuments ==
    {[content |-> <<"c">>, embedding |-> v, metadata |-> [source |-> "test"]] :
        v \in {RealVec, InvalidVec}}

\* main.py startup_event: asyncio.create_task(email_sync_service.start())
StartService ==
    /\ spc = "stopped"
    /\ spc' = "syncing"
    /\ UNCHANGED <<index, wait, call>>
    /\ UNCHANGED <<wfVars, concVars, storeVars>>

\* one iteration of the loop of start(): sync_emails runs to its end and the
\* loop goes to sleep
SyncCycle ==
    /\ spc = "syncing"
    /\ \E fetch \in FetchOutcomes, embedOut \in CycleScripts, addOut \in AddOutcomes :
        /\ Len(index) + Len(fetch.messages) <= MaxIndex
        /\ LET r == sync_emails(fetch, embedOut, addOut, index)
           IN /\ call' = [name |-> "sync_emails", fetch |-> fetch, embedOut |-> embedOut,
                          addOut |-> addOut, before |-> index, value |-> r.value,
                          embedCalls |-> r.embedCalls, addCalls |-> r.addCalls]
              /\ index' = r.index
              /\ spc' = AfterCycle(r).spc
              /\ wait' = AfterCycle(r).wait
    /\ UNCHANGED <<wfVars, concVars, storeVars>>

\* the sleep of the loop elapses: the next cycle starts
WakeUp ==
    /\ spc = "sleeping"
    /\ spc' = "syncing"
    /\ wait' = 0
    /\ UNCHANGED <<index, call>>
    /\ UNCHANGED <<wfVars, concVars, storeVars>>

\* VectorStore.add_documents called directly
CallAddDocuments ==
    /\ \E documents \in SeqsUpTo(DirectDocuments, 2) \ {<<>>}, addOut \in AddOutcomes :
        /\ Len(index) + Len(documents) <= MaxIndex
        /\ LET r == add_documents(documents, index, addOut)
           IN /\ call' = [name |-> "add_documents", documents |-> documents,
                          addOut |-> addOut, before |-> index, value |-> r.value,
                          ids |-> r.ids, addCalls |-> r.addCalls]
              /\ index' = r.index
    /\ UNCHANGED <<spc, wait>>
    /\ UNCHANGED <<wfVars, concVars, storeVars>>

\* EmbeddingUtil.get_embedding called directly
CallGetEmbedding ==
    /\ \E text \in TextArgs, script \in ClientScripts, pca \in PcaOutcomes :
        LET r == get_embedding(text, script, pca)
        IN call' = [name |-> "get_embedding", text |-> text, script |-> script,
                    pca |-> pca, value |-> r.value, calls |-> r.calls]
    /\ UNCHANGED <<spc, index, wait>>
    /\ UNCHANGED <<wfVars, concVars, storeVars>>

\* EmbeddingUtil.batch_get_embeddings called directly with n texts
CallBatchGetEmbeddings ==
    /\ \E n \in 0..2, script \in ClientScripts :
        LET r == batch_get_embeddings(n, script)
        IN call' = [name |-> "batch_get_embeddings", n |-> n, script |-> script,
                    value |-> r.value, calls |-> r.calls]
    /\ UNCHANGED <<spc, index, wait>>
    /\ UNCHANGED <<wfVars, concVars, storeVars>>

ServiceNext ==
    \/ StartService
    \/ SyncCycle
    \/ WakeUp
    \/ CallAddDocuments
    \/ CallGetEmbedding
    \/ CallBatchGetEmbeddings

ServiceSpec == Init /\ [][ServiceNext]_vars

\* the task of start() alone, as the application runs it
SyncLoopNext ==
    \/ StartService
    \/ SyncCycle
    \/ WakeUp

\* The event loop runs the task of start() whenever it can run and its
\* timers fire: a cycle that can run does run, a sleep ends.
SyncLoopSpec ==
    /\ Init
    /\ [][SyncLoopNext]_vars
    /\ WF_vars(StartService)
    /\ WF_vars(SyncCycle)
    /\ WF_vars(WakeUp)

\* ------------------------------------------------- writers of the collection
\* bound: add_documents is not called once the collection holds MaxStored
\* documents
MaxStored == 3

\* lines 31-36: the IDs add_documents gives to n documents when
\* collection.count() is count
AssignIds(n, count) == [k \in 1..n |-> IntToStr(count + k - 1)]

\* the IDs of the documents a collection holds
StoredIds(coll) == {coll[i].id : i \in 1..Len(coll)}

\* what the collection does with an add that carries an ID it already
\* holds, or the same ID twice: it keeps what it holds and drops the new
\* document, or it raises
DuplicateOutcomes == {"kept", "raise"}

\* the entries collection.add is given: ids[k] with the metadata of
\* documents[k]
Entries(ids, documents) ==
    [k \in 1..Len(ids) |->
        [id |-> ids[k], email_id |-> Get(documents[k]["metadata"], "email_id", <<>>)]]

\* the entries whose ID the collection does not hold yet (the first of
\* those that share an ID)
RECURSIVE AddNew(_, _)
AddNew(coll, entries) ==
    IF entries = <<>> THEN coll
    ELSE IF Head(entries).id \in StoredIds(coll) THEN AddNew(coll, Tail(entries))
    ELSE AddNew(Append(coll, Head(entries)), Tail(entries))

\* lines 43-56: collection.add(ids, ...) run on the executor, and the
\* value add_documents returns
collection_add(coll, ids, documents, onDuplicate) ==
    LET entries == Entries(ids, documents)
        duplicate == \/ \E k \in 1..Len(ids) : ids[k] \in StoredIds(coll)
                     \/ \E k, l \in 1..Len(ids) : k # l /\ ids[k] = ids[l]
    IN IF ~Storable(documents) \/ (duplicate /\ onDuplicate = "raise")
       THEN [value |-> FALSE, stored |-> coll]
       ELSE [value |-> TRUE, stored |-> AddNew(coll, entries)]

\* VectorStore.delete_documents(ids)
delete_documents(coll, ids) ==
    [value |-> TRUE, stored |-> SelectSeq(coll, LAMBDA d : d.id \notin ids)]

\* the mailbox the sync reads: it does not change between the cycles
Inbox == <<WithSnippet, EmptySnippet>>

\* lines 47-81 of sync_emails on the Inbox: the documents of its batch
SyncDocuments ==
    LET valid_messages == ValidMessages(Inbox)
    IN BatchDocuments(valid_messages,
                      batch_get_embeddings(Len(valid_messages), <<"ok">>).value.vecs)

\* rag_agent.py lines 137-147: the document RAGAgent.add_document builds
AgentDocuments ==
    <<[content |-> <<"n">>,
       embedding |-> get_embedding([single |-> TRUE, n |-> 1], <<"ok">>, "ok").value.vecs[1],
       metadata |-> EmptyDict]>>

\* add_documents up to its await: the IDs are computed from the count
BeginAdd(c, documents) ==
    /\ adders[c].pc = "idle"
    /\ Len(stored) + Len(documents) <= MaxStored
    /\ adders' = [adders EXCEPT ![c] =
                     [pc |-> "inserting",
                      ids |-> AssignIds(Len(documents), Len(stored)),
                      documents |-> documents,
                      seen |-> StoredIds(stored),
                      value |-> FALSE]]
    /\ UNCHANGED stored

\* a sync cycle reaches the await of its insert
SyncAddBegin ==
    /\ BeginAdd("sync", SyncDocuments)
    /\ UNCHANGED <<wfVars, svcVars, concVars>>

\* RAGAgent.add_document reaches the await of its insert
AgentAddBegin ==
    /\ BeginAdd("agent", AgentDocuments)
    /\ UNCHANGED <<wfVars, svcVars, concVars>>

\* the executor has run collection.add of one caller; add_documents returns
AddInsert ==
    /\ \E c \in Callers, onDuplicate \in DuplicateOutcomes :
        /\ adders[c].pc = "inserting"
        /\ LET r == collection_add(stored, adders[c].ids, adders[c].documents, onDuplicate)
           IN /\ stored' = r.stored
              /\ adders' = [adders EXCEPT ![c].pc = "idle", ![c].value = r.value]
    /\ UNCHANGED <<wfVars, svcVars, concVars>>

\* VectorStore.delete_documents called with the ID of a stored document
DeleteDocuments ==
    /\ \E id \in StoredIds(stored) :
        stored' = delete_documents(stored, {id}).stored
    /\ UNCHANGED adders
    /\ UNCHANGED <<wfVars, svcVars, concVars>>

StoreNext ==
    \/ SyncAddBegin
    \/ AgentAddBegin
    \/ AddInsert
    \/ DeleteDocuments

StoreSpec == Init /\ [][StoreNext]_vars

\* --------------------------------------------------------- concurrent runs
\* what one run meets: the dict it is called with, what the model replies
\* to its prompts and what the index returns to its retrievals
ConcEnvs ==
    [inputs : Inputs,
     model : [answer : {Text(<<"o", "k">>), Raise("TimeoutError", "")},
              rating : {Text(<<"0", ".", "7">>)}],
     docs : {<<>>, OneDoc}]

\* a graph whose nodes all work on the loop state of the first run, as if
\* it were kept on the RAGWorkflow
run_state_on_instance(rs, i) == rs[CHOOSE j \in RunIds : \A k \in RunIds : j <= k].state

\* the loop state the graph hands to the node of run i: the state of that
\* invocation of graph.arun (the RAGWorkflow holds the agents and the
\* compiled graph, and no loop state)
RunState(rs, i) == rs[i].state

\* the node function the graph calls, with what the run meets
NodeResult(node, st, e) ==
    CASE node = "retrieve" -> _retrieve_context(st, e.docs)
      [] node = "generate" -> _generate_response(st, e.docs, e.model.answer)
      [] node = "validate" -> _validate_response(st, e.model.rating)

\* run() returns: the formatted response, or the except clause's result
FinalResult(st) ==
    IF "response" \in DOMAIN st THEN FormatResult(st)
    ELSE ErrorResult("KeyError", "'response'")

\* another run is between two of its nodes while run i executes one
OthersUnderWay(i) ==
    \E j \in RunIds \ {i} : runs[j].pc \in _build_graph.nodes /\ runs[j].generations > 0

\* a request arrives: run(inputs) starts while other runs may be under way
StartRun ==
    /\ \E i \in RunIds, e \in ConcEnvs :
        /\ runs[i].pc = "idle"
        /\ env' = [env EXCEPT ![i] = e]
        /\ runs' = [runs EXCEPT ![i] = [pc |-> _build_graph.entry, state |-> e.inputs,
                                        result |-> EmptyDict, generations |-> 0,
                                        overlapped |-> FALSE]]
    /\ UNCHANGED <<wfVars, svcVars, storeVars>>

\* the event loop resumes one run: its next node runs to the end
RunNode ==
    /\ \E i \in RunIds :
        /\ runs[i].pc \in _build_graph.nodes
        /\ LET node == runs[i].pc
               r == NodeResult(node, RunState(runs, i), env[i])
               gens == runs[i].generations + (IF node = "generate" THEN 1 ELSE 0)
               met == runs[i].overlapped \/ OthersUnderWay(i)
           IN runs' = [runs EXCEPT ![i] =
                  IF r.exc # ""
                  THEN [pc |-> "returned", state |-> runs[i].state,
                        result |-> ErrorResult(r.exc, r.msg), generations |-> gens,
                        overlapped |-> met]
                  ELSE [pc |-> NextNode(Successors(node, r.state)), state |-> r.state,
                        result |-> runs[i].result, generations |-> gens,
                        overlapped |-> met]]
    /\ UNCHANGED env
    /\ UNCHANGED <<wfVars, svcVars, storeVars>>

\* graph.arun of one run returned: run() formats its final response
RunReturns ==
    /\ \E i \in RunIds :
        /\ runs[i].pc = "END"
        /\ runs' = [runs EXCEPT ![i] = [@ EXCEPT !.pc = "returned",
                                                 !.result = FinalResult(RunState(runs, i))]]
    /\ UNCHANGED env
    /\ UNCHANGED <<wfVars, svcVars, storeVars>>

ConcurrentNext ==
    \/ StartRun
    \/ RunNode
    \/ RunReturns

ConcurrentSpec == Init /\ [][ConcurrentNext]_vars

\* ================================================================== claims
\* a run() call is in progress or has returned (no direct node call)
InRun == applied = "none" /\ pc # "idle"

\* run() returned through its try block (not through the except clause)
ReturnedNormally == InRun /\ pc = "returned" /\ "error" \notin DOMAIN result

\* the response in st carries an error (response.get("error") is truthy)
HasError(st) == "response" \in DOMAIN st /\ TruthyMsg(Get(st["response"], "error", ""))

\* the last node a run executed was VALIDATE
AfterValidate == InRun /\ (pc = "END" \/ (pc = "generate" /\ generations >= 1))

\* the reply of the model to a rating prompt is a number, and its value
RatingIsNumber == model.rating.kind = "text" /\ ParseFloat(model.rating.text).ok
RatingValue == ParseFloat(model.rating.text).val

\* C1: a run executes GENERATE at most 3 times, and the attempts value of
\* the result run() returns is never above 3 and never below 1; every
\* result returned through the try block carries an attempts value.
C1_AttemptBound ==
    /\ generations <= 3
    /\ (InRun /\ pc = "returned" /\ "attempts" \in DOMAIN result["metadata"])
          => result["metadata"]["attempts"] \in 1..3
    /\ ReturnedNormally => "attempts" \in DOMAIN result["metadata"]

C1_Witness ==
    /\ ReturnedNormally
    /\ generations = 3
    /\ result["metadata"]["attempts"] = 3

\* C2: in one run, retrieve_relevant_documents is executed exactly once,
\* however many generation attempts the run makes.
C2_RetrieveOnce == ReturnedNormally => retrievals = 1

\* C3: should_regenerate returns true iff valid is false and attempt < 3:
\* true for (false, 1), false for (true, 1), false for (false, 3).
C3_ShouldRegenerate ==
    (pc = "called" /\ applied = "should_regenerate"
        /\ {"valid", "attempt"} \subseteq DOMAIN before)
    => /\ returned.value <=> (before["valid"] = FALSE /\ before["attempt"] < 3)
       /\ (before["valid"] = FALSE /\ before["attempt"] = 1) => returned.value = TRUE
       /\ (before["valid"] = TRUE /\ before["attempt"] = 1) => returned.value = FALSE
       /\ (before["valid"] = FALSE /\ before["attempt"] = 3) => returned.value = FALSE

C3_Witness ==
    /\ pc = "called" /\ applied = "should_regenerate"
    /\ {"valid", "attempt"} \subseteq DOMAIN before
    /\ before["valid"] = FALSE /\ before["attempt"] = 3
    /\ returned.value = FALSE

\* C4: after each VALIDATE exactly one successor (GENERATE or DONE) is
\* taken, and the edge to DONE is taken only when valid is true or
\* attempt equals 3.
C4_OneSuccessor ==
    AfterValidate
    => /\ Cardinality(taken) = 1
       /\ END \in taken => (state["valid"] = TRUE \/ state["attempt"] = 3)

\* C5: attempt equals the number of GENERATE executions of the run so far;
\* RETRIEVE sets it to 0, GENERATE adds exactly 1, VALIDATE leaves it
\* unchanged on its error short-circuit and on its scoring path.
C5_AttemptCountsGenerations ==
    /\ (InRun /\ (pc \in {"generate", "validate", "END"} \/ ReturnedNormally))
          => ("attempt" \in DOMAIN state /\ state["attempt"] = generations)
    /\ (pc = "called" /\ returned.exc = "")
          => /\ applied = "retrieve" => state["attempt"] = 0
             /\ applied = "generate" => state["attempt"] = Get(before, "attempt", 0) + 1
             /\ applied = "validate"
                   => /\ ("attempt" \in DOMAIN state) <=> ("attempt" \in DOMAIN before)
                      /\ Get(state, "attempt", 0) = Get(before, "attempt", 0)

C5_Witness ==
    /\ pc = "called" /\ applied = "validate" /\ returned.exc = ""
    /\ ~HasError(before)
    /\ "quality_score" \in DOMAIN state /\ state["quality_score"] = 30
    /\ Get(before, "attempt", 0) = 2 /\ state["attempt"] = 2

C7_SinglePass ==
    (InRun /\ pc = "returned"
        /\ "query" \in DOMAIN state /\ Strip(state["query"]) # <<>>
        /\ model.answer.kind = "text" /\ Strip(model.answer.text) # <<>>
        /\ RatingIsNumber /\ RatingValue >= 70)
    => /\ generations = 1
       /\ Get(state, "attempt", 0) = 1
       /\ Get(state, "valid", FALSE) = TRUE

\* C8: when the response has no error, VALIDATE sets valid to true exactly
\* when the parsed quality score is >= 0.7 (0.7 included) and stores that
\* score as quality_score.
C8_ValidateThreshold ==
    (pc = "called" /\ applied = "validate" /\ returned.exc = "" /\ ~HasError(before))
    => /\ state["quality_score"] = RatingValue
       /\ state["valid"] <=> (state["quality_score"] >= 70)
       /\ model.rating = Text(<<"0", ".", "7">>)
             => (state["valid"] = TRUE /\ state["quality_score"] = 70)
       /\ model.rating = Text(<<"0", ".", "6", "9">>)
             => (state["valid"] = FALSE /\ state["quality_score"] = 69)
       /\ model.rating = Text(<<" ", "0", ".", "8", "\n">>)
             => (state["valid"] = TRUE /\ state["quality_score"] = 80)

C8_Witness ==
    /\ pc = "called" /\ applied = "validate" /\ returned.exc = "" /\ ~HasError(before)
    /\ model.rating = Text(<<"0", ".", "7">>)
    /\ state["valid"] = TRUE /\ state["quality_score"] = 70

\* C9: when the response entering VALIDATE has error set, VALIDATE makes no
\* model call, sets valid = false and copies the response's error string
\* unchanged into the state's error; that string is still the state's error
\* when the loop reaches DONE.
C9_ErrorShortCircuit ==
    /\ (pc = "called" /\ applied = "validate" /\ HasError(before))
          => /\ returned.exc = ""
             /\ modelCalls = 0
             /\ state["valid"] = FALSE
             /\ state["error"] = before["response"]["error"]
             /\ state["response"] = before["response"]
    /\ ((AfterValidate \/ ReturnedNormally) /\ HasError(state))
          => /\ state["valid"] = FALSE
             /\ state["error"] = state["response"]["error"]

C9_Witness ==
    /\ InRun /\ pc = "END" /\ HasError(state)
    /\ state["valid"] = FALSE
    /\ state["error"] = DuplicateContextMsg

\* C10: in every result run() returns, a null answer is accompanied by an
\* error message, and when the last generation response carried an error
\* the result carries that error.
C10_NullAnswerHasError ==
    (InRun /\ pc = "returned")
    => /\ result["answer"] = None
             => ("error" \in DOMAIN result /\ TruthyMsg(result["error"]))
       /\ (ReturnedNormally /\ HasError(state))
             => ("error" \in DOMAIN result
                 /\ result["error"] = state["response"]["error"])

\* run() was called (the graph executed, or graph.arun mocked) and returned
RunReturned == applied \in {"none", "arun"} /\ pc = "returned"

\* C11: no failure of an external call inside RETRIEVE, GENERATE or VALIDATE
\* leaves the stage as an exception: a node function given a state that
\* has the keys it reads returns a state, whatever the index and the model
\* do, and in a run whose inputs carry a query no exception reaches the
\* except clause of run().
C11_NoStageException ==
    /\ (pc = "called" /\ applied \in {"retrieve", "generate"} /\ "query" \in DOMAIN before)
          => raised.type = ""
    /\ (pc = "called" /\ applied = "validate" /\ "response" \in DOMAIN before)
          => raised.type = ""
    /\ (InRun /\ "query" \in DOMAIN state) => raised.type = ""

\* C12: every exception raised while the graph is executed inside run() is
\* caught: run() returns answer = null, sources = [], error = the
\* exception's message and metadata.error_type = its class name, and it
\* returns an error only then.
C12_RunCatchesExceptions ==
    RunReturned
    => /\ ("error" \in DOMAIN result) <=> (raised.type # "")
       /\ raised.type # ""
             => result = [answer |-> None, sources |-> <<>>, error |-> raised.msg,
                          metadata |-> [error_type |-> raised.type]]

C12_Witness ==
    /\ RunReturned /\ applied = "arun"
    /\ raised = [type |-> "Exception", msg |-> "Test error"]
    /\ result["error"] = "Test error"
    /\ result["metadata"]["error_type"] = "Exception"
    /\ result["answer"] = None /\ result["sources"] = <<>>

\* C13: the result run() returns through its try block is built from the
\* response of the last generation: its answer and sources are that
\* response's, metadata.quality_score is the quality score in the final
\* state (None when there is none) and metadata.attempts is the final
\* attempt count, which in an executed run is the number of generations.
C13_FinalResult ==
    (RunReturned /\ raised.type = "")
    => /\ result["answer"] = state["response"]["answer"]
       /\ result["sources"] = Get(state["response"], "sources", <<>>)
       /\ result["metadata"]["attempts"] = Get(state, "attempt", 1)
       /\ "quality_score" \in DOMAIN state
             => result["metadata"]["quality_score"] = state["quality_score"]
       /\ "quality_score" \notin DOMAIN state
             => result["metadata"]["quality_score"] = NoneScore
       /\ InRun => result["metadata"]["attempts"] = generations

C13_Witness ==
    /\ RunReturned /\ applied = "arun" /\ raised.type = ""
    /\ "quality_score" \in DOMAIN state /\ state["quality_score"] = 80
    /\ result["metadata"]["quality_score"] = 80
    /\ Get(state, "attempt", 1) = 2 /\ result["metadata"]["attempts"] = 2
    /\ result["answer"] = <<"o", "k">>

\* C14: every generation attempt of a run hands the Answer Generator the
\* context RETRIEVE stored: the documents of state.context, formatted, in
\* their order.
C14_SameContextEveryAttempt ==
    (InRun /\ generations >= 1 /\ "context" \in DOMAIN state)
    => /\ passed.invoked
       /\ passed.context = _prepare_context(state["context"])

\* every candidate of the direct call scored below the relevance threshold
AllBelowThreshold ==
    \A i \in 1..Len(before["candidates"]) :
        analyze_relevance(before["replies"][i]) < SIMILARITY_THRESHOLD

Scored(i) ==
    Merge(before["candidates"][i], [score |-> analyze_relevance(before["replies"][i])])

\* the candidates of the direct call whose score reaches the threshold
Kept ==
    {i \in 1..Len(before["candidates"]) :
        analyze_relevance(before["replies"][i]) >= SIMILARITY_THRESHOLD}

\* C16: the output of retrieve_relevant_documents holds exactly the
\* candidates whose score is >= the threshold (0.7 included), each with its
\* score attached and as often as it was kept, ordered by non-increasing
\* score.
C16_FilterOutput ==
    (pc = "called" /\ applied = "retrieve_relevant_documents")
    => LET output == returned.value
       IN /\ Len(output) = Cardinality(Kept)
          /\ \A j \in 1..Len(output) : \E i \in Kept : output[j] = Scored(i)
          /\ \A i \in Kept :
                Cardinality({j \in 1..Len(output) : output[j] = Scored(i)})
                   = Cardinality({k \in Kept : Scored(k) = Scored(i)})
          /\ \A j \in 1..Len(output) : \A k \in j..Len(output) :
                output[j]["score"] >= output[k]["score"]

C16_Witness ==
    /\ pc = "called" /\ applied = "retrieve_relevant_documents"
    /\ before["replies"] = <<Text(<<"0", ".", "7">>), Text(<<"0", ".", "9">>)>>
    /\ before["candidates"][1]["content"] = <<"a">>
    /\ before["candidates"][2]["content"] = <<"b">>
    /\ Len(returned.value) = 2
    /\ returned.value[1]["content"] = <<"b">> /\ returned.value[1]["score"] = 90
    /\ returned.value[2]["content"] = <<"a">> /\ returned.value[2]["score"] = 70

\* the reply of the model to a relevance prompt is no number: the call
\* raised or float() rejects the text
Unscoreable(reply) == reply.kind = "raise" \/ ~ParseFloat(reply.text).ok

\* C17: analyze_relevance always returns a value in [0, 1], and 0.0 when
\* the model call fails or its text is no number; a candidate that cannot
\* be scored is dropped by the filter while the others are still scored
\* and filtered.
C17_ScoreInUnitInterval ==
    /\ (pc = "called" /\ applied = "analyze_relevance")
          => /\ returned.value \in 0..100
             /\ Unscoreable(before["reply"]) => returned.value = 0
    /\ (pc = "called" /\ applied = "retrieve_relevant_documents")
          => Len(returned.value)
                = Cardinality({i \in Kept : ~Unscoreable(before["replies"][i])})

\* the result of generate_response for a query that is empty once trimmed
EmptyQueryResult ==
    [answer |-> None, error |-> "Query cannot be empty",
     metadata |-> [error_type |-> "ValueError"]]

\* C18: generate_response called with a query that is empty after trimming
\* returns answer = null, error = "Query cannot be empty" and
\* metadata.error_type = "ValueError" without calling the model;
\* process_query hands that result on unchanged.
C18_EmptyQuery ==
    /\ (pc = "called" /\ applied = "GeminiAgent.generate_response"
          /\ before["query"] \in {<<>>, <<" ", "\n">>})
          => (returned.value = EmptyQueryResult /\ modelCalls = 0 /\ raised.type = "")
    /\ (pc = "called" /\ applied = "process_query" /\ before["kwargs"] = EmptyDict
          /\ before["query"] \in {<<>>, <<" ", "\n">>})
          => (returned.value = EmptyQueryResult /\ modelCalls = 0)

C18_Witness ==
    /\ pc = "called" /\ applied = "GeminiAgent.generate_response"
    /\ before["query"] = <<" ", "\n">>
    /\ before["reply"] = Text(<<"o", "k">>)
    /\ returned.value = EmptyQueryResult
    /\ modelCalls = 0

\* C19: when the model call succeeds but its text is empty or only
\* whitespace, generate_response returns answer = null, error = "No
\* response generated from the model" and metadata.error_type =
\* "ModelError"; it never returns an empty answer without an error.
C19_EmptyModelText ==
    (pc = "called" /\ applied = "GeminiAgent.generate_response"
        /\ Strip(before["query"]) # <<>> /\ before["reply"].kind = "text")
    => /\ Strip(before["reply"].text) = <<>>
             => returned.value = [answer |-> None,
                                  error |-> "No response generated from the model",
                                  metadata |-> [error_type |-> "ModelError"]]
       /\ returned.value["answer"] = <<>>
             => TruthyMsg(Get(returned.value, "error", ""))

\* C20: every result generate_response or process_query returns is
\* well-formed: exactly one of answer and error is populated (present and
\* not None), and metadata.error_type is present whenever error is set.
C20_WellFormedResult ==
    (pc = "called" /\ applied \in {"GeminiAgent.generate_response", "process_query"})
    => LET v == returned.value
           hasAnswer == "answer" \in DOMAIN v /\ v["answer"] # None
           hasError == "error" \in DOMAIN v
       IN /\ hasAnswer # hasError
          /\ hasError => "error_type" \in DOMAIN v["metadata"]

\* C21: an exception raised by the model call inside generate_response,
\* and an exception raised inside process_query, is caught and returned as
\* answer = null, error = str(exception), metadata.error_type = the
\* exception's class name; neither call raises to its caller.
C21_ExceptionsReturned ==
    /\ (pc = "called" /\ applied \in {"GeminiAgent.generate_response", "process_query"})
          => raised.type = ""
    /\ (pc = "called" /\ applied = "GeminiAgent.generate_response"
          /\ Strip(before["query"]) # <<>> /\ before["reply"].kind = "raise")
          => returned.value = [answer |-> None, error |-> before["reply"].msg,
                               metadata |-> [error_type |-> before["reply"].type]]
    /\ (pc = "called" /\ applied = "process_query" /\ before["kwargs"] # EmptyDict)
          => /\ returned.value["answer"] = None
             /\ returned.value["error"] = DuplicateContextMsg
             /\ returned.value["metadata"] = [error_type |-> "TypeError"]

C21_Witness ==
    /\ pc = "called" /\ applied = "GeminiAgent.generate_response"
    /\ before["query"] = <<"q">>
    /\ before["reply"] = Raise("ResourceExhausted", "quota exceeded")
    /\ returned.value["answer"] = None
    /\ returned.value["error"] = "quota exceeded"
    /\ returned.value["metadata"]["error_type"] = "ResourceExhausted"

\* the last thing the services did was a sync cycle of the loop
IsCycle == call.name = "sync_emails"

\* the messages of the last cycle that have a snippet
CycleValid == ValidMessages(call.fetch.messages)

\* the last cycle was successful: the fetch returned, and every message
\* with a snippet was embedded and accepted by the vector store
CycleSuccessful ==
    /\ call.fetch.kind = "messages"
    /\ \/ CycleValid = <<>>
       \/ /\ call.embedOut # <<"none">>
          /\ call.addOut = "ok"
          /\ \A k \in 1..Len(CycleValid) : "id" \in DOMAIN CycleValid[k]

\* C23: in the loop of start(), a sync cycle that succeeds is followed by a
\* wait of 300 seconds and a sync cycle that fails by a wait of 60 seconds.
C23_BackoffOnFailure ==
    (IsCycle /\ spc = "sleeping")
    => /\ CycleSuccessful => wait = 300
       /\ ~CycleSuccessful => wait = 60

\* how the last cycle ended
CycleOutcome ==
    IF call.fetch.kind = "raise" THEN "raised"
    ELSE IF call.fetch.messages = <<>> \/ CycleValid = <<>> THEN "nothing"
    ELSE IF CycleSuccessful THEN "stored"
    ELSE "failed"

\* C24: the sync loop runs forever: after every outcome of a sync cycle
\* (messages stored, nothing to sync, an embedding or index failure, the
\* mailbox raising), another sync cycle is eventually started.
C24_LoopRunsForever ==
    (IsCycle /\ spc # "syncing"
        /\ CycleOutcome \in {"stored", "nothing", "failed", "raised"})
    ~> (spc = "syncing")

C24_Witness ==
    /\ spc = "syncing"
    /\ IsCycle /\ CycleOutcome = "raised"
    /\ call.value = PyBool(FALSE)

\* C25: sync_emails returns the boolean True when the sync was successful
\* and the boolean False otherwise (an embedding missing, the vector store
\* rejecting a batch, the fetch raising).
C25_SyncReturnsBool ==
    IsCycle
    => /\ CycleSuccessful => call.value = PyBool(TRUE)
       /\ ~CycleSuccessful => call.value = PyBool(FALSE)

\* C26: when every fetched message has an empty snippet, sync_emails makes
\* no embedding call and no vector-store insert, and returns True.
C26_EmptySnippets ==
    (IsCycle /\ call.fetch.kind = "messages" /\ call.fetch.messages # <<>>
        /\ CycleValid = <<>>)
    => /\ call.embedCalls = 0
       /\ call.addCalls = 0
       /\ call.value = PyBool(TRUE)

\* C27: add_documents gives the n documents of a call the IDs size, size+1,
\* ..., size+n-1, size being the document count of the index at the call;
\* the IDs in the index are strictly increasing integers.
C27_IdsFromSize ==
    /\ \A i \in 1..Len(index) : AllDigits(index[i]) /\ IntVal(index[i]) = i - 1
    /\ \A i \in 1..Len(index) : \A j \in (i + 1)..Len(index) :
          IntVal(index[i]) < IntVal(index[j])
    /\ call.name = "add_documents"
          => /\ Len(call.ids) = Len(call.documents)
             /\ \A k \in 1..Len(call.ids) :
                   /\ AllDigits(call.ids[k])
                   /\ IntVal(call.ids[k]) = Len(call.before) + k - 1
             /\ call.value => index = call.before \o call.ids

C27_Witness ==
    /\ call.name = "add_documents" /\ call.value
    /\ Len(call.before) = 1
    /\ call.ids = <<<<"1">>, <<"2">>>>
    /\ index = <<<<"0">>, <<"1">>, <<"2">>>>

\* C28: the embedding calls never raise; when the embedding client fails,
\* get_embedding returns one 768-dimension zero vector for a single text,
\* and a batch request (a list given to get_embedding, or
\* batch_get_embeddings) returns one 768-dimension zero vector per text.
C28_FallbackShape ==
    /\ (call.name = "get_embedding" /\ Head(call.script) = "raise")
          => call.value = IF call.text.single THEN OneVector(ZeroVec)
                          ELSE VectorList(Repeat(ZeroVec, call.text.n))
    /\ (call.name = "batch_get_embeddings" /\ Head(call.script) = "raise")
          => call.value = VectorList(Repeat(ZeroVec, call.n))

\* C29: when the embedding client fails on its first two calls and
\* succeeds on the third, get_embedding and batch_get_embeddings return the
\* real embedding of the third call, and exactly three client calls are
\* made.
C29_RetryEmbedding ==
    /\ (call.name = "get_embedding" /\ call.script = <<"raise", "raise", "ok">>
          /\ call.pca = "ok")
          => /\ call.calls = 3
             /\ \A k \in 1..Len(call.value.vecs) : call.value.vecs[k] = RealVec
    /\ (call.name = "batch_get_embeddings" /\ call.script = <<"raise", "raise", "ok">>)
          => /\ call.calls = 3
             /\ call.value = VectorList(Repeat(RealVec, call.n))

\* C30: add_documents called with a document whose embedding is no list of
\* numbers returns False without calling the index's add operation, and
\* the index is left unchanged.
C30_InvalidEmbedding ==
    (call.name = "add_documents" /\ ~Storable(call.documents))
    => /\ call.value = FALSE
       /\ call.addCalls = 0
       /\ index = call.before

\* a run of the workflow alone, from `node` on the state st with what it
\* meets in e: the loop state, the result and the generations it ends with
RECURSIVE SoloRun(_, _, _, _)
SoloRun(node, st, e, gens) ==
    IF node = "END"
    THEN [state |-> st, result |-> FinalResult(st), generations |-> gens]
    ELSE LET r == NodeResult(node, st, e)
             g == gens + (IF node = "generate" THEN 1 ELSE 0)
         IN IF r.exc # ""
            THEN [state |-> st, result |-> ErrorResult(r.exc, r.msg), generations |-> g]
            ELSE SoloRun(NextNode(Successors(node, r.state)), r.state, e, g)

Alone(i) == SoloRun(_build_graph.entry, env[i].inputs, env[i], 0)

Drop(s, n) == SubSeq(s, n + 1, Len(s))

\* the source line _prepare_context is to write for a document
SourceLine(doc) ==
    <<"S", "o", "u", "r", "c", "e", ":", " ">>
    \o (IF "source" \in DOMAIN doc["metadata"] THEN doc["metadata"]["source"]
        ELSE <<"U", "n", "k", "n", "o", "w", "n">>)

\* C31: _prepare_context returns one context entry per input document, in
\* input order, each the document's content followed by
\* "Source: <metadata.source>", or "Source: Unknown" when the source is
\* missing; an empty input gives an empty output.
C31_PrepareContext ==
    applied = "_prepare_context"
    => LET documents == before.documents
           context == returned.value
       IN /\ Len(context) = Len(documents)
          /\ documents = <<>> => context = <<>>
          /\ \A i \in 1..Len(documents) :
                LET content == documents[i]["content"]
                IN /\ SubSeq(context[i], 1, Len(content)) = content
                   /\ Drop(context[i], Len(content)) = <<"\n">> \o SourceLine(documents[i])

C31_Witness ==
    /\ applied = "_prepare_context"
    /\ Len(before.documents) = 2
    /\ "source" \in DOMAIN before.documents[1]["metadata"]
    /\ "source" \notin DOMAIN before.documents[2]["metadata"]
    /\ Len(returned.value) = 2
    /\ returned.value[1] # returned.value[2]

\* the candidates of the direct call, each with its score, in the order the
\* index returned them
AllScored == [i \in 1..Len(before["candidates"]) |-> Scored(i)]

\* the documents of a list whose score is v
WithScore(docs, v) == SelectSeq(docs, LAMBDA d : d["score"] = v)

\* C32: among the retained candidates of equal relevance score, the
\* Relevance Filter keeps the order in which the vector index returned (and
\* the scoring pass visited) them.
C32_TiesKeepOrder ==
    (pc = "called" /\ applied = "retrieve_relevant_documents")
    => \A j \in 1..Len(returned.value) :
          LET v == returned.value[j]["score"]
          IN WithScore(returned.value, v) = WithScore(AllScored, v)

C32_Witness ==
    /\ pc = "called" /\ applied = "retrieve_relevant_documents"
    /\ before["replies"] = <<Text(<<"0", ".", "9">>), Text(<<"0", ".", "9">>)>>
    /\ before["candidates"][1]["content"] = <<"b">>
    /\ before["candidates"][2]["content"] = <<"a">>
    /\ Len(returned.value) = 2
    /\ returned.value[1]["content"] = <<"b">>
    /\ returned.value[2]["content"] = <<"a">>
    /\ returned.value[1]["score"] = returned.value[2]["score"]

\* _validate_response was called directly and returned a state
Validated == pc = "called" /\ applied = "validate" /\ returned.exc = ""

NoRating(out) ==
    LET q == generate_response(<<"r">>, None, out).val
    IN q["answer"] = None \/ ~ParseFloat(Strip(q["answer"])).ok

ValidatorFaults == {"ValueError", "AttributeError"}

Inserting(c) == adders[c].pc = "inserting"

\* C36: after any sequence of add_documents and delete_documents calls on
\* one index, every ID add_documents assigns differs from the ID of every
\* document stored at that moment.
C36_FreshIds ==
    \A c \in Callers :
        Inserting(c)
        => \A k \in 1..Len(adders[c].ids) : adders[c].ids[k] \notin adders[c].seen

\* C37: two add_documents calls that overlap in time on one collection
\* never assign the same ID to two different documents.
C37_OverlappingAdds ==
    \A c, d \in Callers :
        (c # d /\ Inserting(c) /\ Inserting(d))
        => \A k \in 1..Len(adders[c].ids) : \A l \in 1..Len(adders[d].ids) :
              adders[c].documents[k] # adders[d].documents[l]
                 => adders[c].ids[k] # adders[d].ids[l]

\* C38: after any number of sync cycles over an unchanged mailbox, each
\* mailbox message (identified by its email_id) is stored in the index at
\* most once.
C38_StoredOnce ==
    \A i, j \in 1..Len(stored) :
        (i # j /\ stored[i].email_id # <<>>) => stored[i].email_id # stored[j].email_id

====
